---------------------------- MODULE Spec2Model ----------------------------
(***************************************************************************)
(* A model of gostalt/validate: Rules (Param, Check, Options) are run by a *)
(* Validator against an http.Request; failures are collected as Messages.  *)
(*                                                                         *)
(* Conventions of the model                                                *)
(*   - a Go string that a check inspects (a form value, a date layout) is  *)
(*     a sequence of one-character strings; "" is << >>;                   *)
(*   - a Go error is the sequence of pieces fmt.Errorf/errors.New put      *)
(*     together (format text and arguments, in order); the nil error is    *)
(*     << >>;                                                              *)
(*   - a nil slice and an empty slice are both << >> (Run only ever        *)
(*     returns nil or a non-empty slice);                                  *)
(*   - every Rule has a non-nil Check.                                     *)
(***************************************************************************)
EXTENDS Integers, Sequences, FiniteSets, TLC

VARIABLES
    Form,      \* request.Form: url.Values (nil until the form is parsed)
    query,     \* the parameters the request carries (its URL query)
    v,         \* the Validator: made, Rules
    ret,       \* what the most recent call returned
    prev,      \* the return of the Run before it, when nothing changed since
    passed,    \* every rule handed to Make and Add so far, in call order
    resp,      \* the http.ResponseWriter: status, header, body
    mx,        \* the resolver's answer to an MX lookup, and how long it takes
    mem        \* slices as Go keeps them: backing arrays, and the slice headers
               \* of the caller's rules and of the Validators made from them

vars == <<Form, query, v, ret, prev, passed, resp, mx, mem>>

(***************************************************************************)
(* Bounds of the model.                                                    *)
(***************************************************************************)
MaxRules == 3      \* longest rule list of a Validator
MaxArgs == 2       \* most rules handed to one Make or Add call
MaxLen == 2        \* longest free-form value tried against a check
MaxCap == 2        \* largest capacity of the slice of rules a caller builds

Params == {"forename", "surname"}

(***************************************************************************)
(* Strings.                                                                *)
(***************************************************************************)
Letters ==
    {"a", "b", "c", "d", "e", "f", "g", "h", "i", "j", "k", "l", "m", "n", "o",
     "p", "q", "r", "s", "t", "u", "v", "w", "x", "y", "z",
     "A", "B", "C", "D", "E", "F", "G", "H", "I", "J", "K", "L", "M", "N", "O",
     "P", "Q", "R", "S", "T", "U", "V", "W", "X", "Y", "Z"}
Digits == {"0", "1", "2", "3", "4", "5", "6", "7", "8", "9"}
Spaces == {" "}

NilError == << >>

\* fmt.Errorf and errors.New: the pieces of the text, in order.
Errorf(pieces) == pieces

IsNil(err) == err = NilError

RECURSIVE CountChar(_, _)
CountChar(s, c) ==
    IF s = << >> THEN 0
    ELSE (IF Head(s) = c THEN 1 ELSE 0) + CountChar(Tail(s), c)

\* all x in s satisfy s[i] \in set
AllIn(s, set) == \A i \in 1..Len(s) : s[i] \in set
AnyNotIn(s, set) == \E i \in 1..Len(s) : s[i] \notin set


\* len(s) of a Go string counts bytes: a character outside ASCII takes two.
Width(c) == IF c \in Letters \cup Digits \cup {" ", "@", "-", "/", ":", ".", ",", "+", "(", "_"} THEN 1 ELSE 2

RECURSIVE ByteLen(_)
ByteLen(s) == IF s = << >> THEN 0 ELSE Width(Head(s)) + ByteLen(Tail(s))

\* The text of a string, as one piece of an error message.
RECURSIVE Join(_)
Join(s) == IF s = << >> THEN "" ELSE Head(s) \o Join(Tail(s))

(***************************************************************************)
(* The request-view: r.Form is nil or maps a name to its list of values.   *)
(***************************************************************************)
NoValues == [has |-> FALSE, vals |-> << >>]
NilForm == [nil |-> TRUE, m |-> [p \in Params |-> NoValues]]
EmptyForm == [nil |-> FALSE, m |-> [p \in Params |-> NoValues]]

\* _, exists := r.Form[param]
FormExists(r, param) == r.Form.m[param].has

\* r.Form.Get(param): the first value, "" when there is none.
FormGet(r, param) ==
    LET vs == r.Form.m[param].vals
    IN  IF Len(vs) = 0 THEN << >> ELSE vs[1]

\* r.Form.Set(param, value)
FormSet(form, param, value) ==
    [nil |-> FALSE, m |-> [form.m EXCEPT ![param] = [has |-> TRUE, vals |-> <<value>>]]]

\* r.ParseForm(): fills a nil Form from the parameters the request carries;
\* does nothing to a Form that is already there.
ParseForm(form, q) == IF form.nil THEN [nil |-> FALSE, m |-> q] ELSE form

(***************************************************************************)
(* Options: map[string]interface{}, read with type assertions.             *)
(***************************************************************************)
Absent == [t |-> "absent", i |-> 0, s |-> "", l |-> << >>]
OInt(n) == [t |-> "int", i |-> n, s |-> "", l |-> << >>]
OString(str) == [t |-> "string", i |-> 0, s |-> str, l |-> << >>]
OStrings(list) == [t |-> "strings", i |-> 0, s |-> "", l |-> list]
OBool == [t |-> "bool", i |-> 0, s |-> "", l |-> << >>]

OptionKeys == {"length", "pattern", "timeout", "format", "formats"}
NilOptions == [nil |-> TRUE, m |-> [k \in OptionKeys |-> Absent]]
Options(key, val) == [nil |-> FALSE, m |-> [k \in OptionKeys |-> IF k = key THEN val ELSE Absent]]

\* x, ok := o[key].(int)
AssertInt(o, key) == [ok |-> o.m[key].t = "int", val |-> IF o.m[key].t = "int" THEN o.m[key].i ELSE 0]
\* x, ok := o[key].(string)
AssertString(o, key) == [ok |-> o.m[key].t = "string", val |-> IF o.m[key].t = "string" THEN o.m[key].s ELSE ""]
\* x, exists := o[key]
OptExists(o, key) == o.m[key].t # "absent"
\* x, ok := x.([]string)
AssertStrings(val) == [ok |-> val.t = "strings", val |-> IF val.t = "strings" THEN val.l ELSE << >>]

(***************************************************************************)
(* regexp.MatchString(pattern, value) for the patterns the model uses: the *)
(* three the checks hard-code and those handed to Regex and NotRegex.      *)
(* An unanchored pattern matches when some substring does.                 *)
(***************************************************************************)
PatNotAlpha == "[^a-zA-Z]+"
PatNotAlnum == "[^a-zA-Z0-9]+"
PatEmail == "^[^@\\s]+@[^@\\s]+$"
PatDigitsLetters == "[0-9]+[a-zA-Z]+"
PatBad == "("

NotAtSpace(s) == \A i \in 1..Len(s) : s[i] # "@" /\ s[i] \notin Spaces

Matches(pattern, s) ==
    CASE pattern = PatNotAlpha -> AnyNotIn(s, Letters)
      [] pattern = PatNotAlnum -> AnyNotIn(s, Letters \cup Digits)
      [] pattern = PatEmail ->
            \E i \in 2..(Len(s) - 1) :
                /\ s[i] = "@"
                /\ NotAtSpace(SubSeq(s, 1, i - 1))
                /\ NotAtSpace(SubSeq(s, i + 1, Len(s)))
      [] pattern = PatDigitsLetters ->
            \E i \in 1..(Len(s) - 1) : s[i] \in Digits /\ s[i + 1] \in Letters
      [] OTHER -> FALSE

\* regexp.MatchString: (false, err) when the pattern does not compile.
MatchString(pattern, s) ==
    IF pattern = PatBad
    THEN [pass |-> FALSE, err |-> TRUE]
    ELSE [pass |-> Matches(pattern, s), err |-> FALSE]

(***************************************************************************)
(* The Check Library.  A check takes the request r (its Form, and the      *)
(* network it resolves names on), the parameter and the Options, and       *)
(* returns an error: NilError when the rule is satisfied.                  *)
(***************************************************************************)
\* A Required that looks at the value instead of the key; C8 tells them apart.
RequiredNonEmpty(r, param, o) ==
    IF FormGet(r, param) = << >>
    THEN Errorf(<<param, " is required">>)
    ELSE NilError

Required(r, param, o) ==
    IF ~FormExists(r, param)
    THEN Errorf(<<param, " is required">>)
    ELSE NilError

Alpha(r, param, o) ==
    LET fail == MatchString(PatNotAlpha, FormGet(r, param)).pass
    IN  IF fail
        THEN Errorf(<<param, " must only contain alphabetical characters">>)
        ELSE NilError

Alphanumeric(r, param, o) ==
    LET fail == MatchString(PatNotAlnum, FormGet(r, param)).pass
    IN  IF fail
        THEN Errorf(<<param, " must only contain alphanumeric characters">>)
        ELSE NilError

\* The largest int, 1<<63 - 1, and the magnitude of the smallest, 1<<63, in
\* decimal digits.
MaxIntDigits ==
    <<"9", "2", "2", "3", "3", "7", "2", "0", "3", "6", "8", "5", "4", "7", "7", "5", "8", "0", "7">>
MinIntDigits ==
    <<"9", "2", "2", "3", "3", "7", "2", "0", "3", "6", "8", "5", "4", "7", "7", "5", "8", "0", "8">>

Rank(c) == CHOOSE i \in 0..9 : ToString(i) = c

RECURSIVE StripZeros(_)
StripZeros(ds) == IF ds # << >> /\ Head(ds) = "0" THEN StripZeros(Tail(ds)) ELSE ds

\* a <= b for two numbers of as many digits
RECURSIVE DigitsLeq(_, _)
DigitsLeq(a, b) ==
    IF a = << >> THEN TRUE
    ELSE IF Head(a) # Head(b) THEN Rank(Head(a)) < Rank(Head(b))
    ELSE DigitsLeq(Tail(a), Tail(b))

\* The number fits an int of 64 bits.
InRange(ds, neg) ==
    \/ Len(ds) < 19
    \/ Len(ds) = 19 /\ DigitsLeq(ds, IF neg THEN MinIntDigits ELSE MaxIntDigits)

\* strconv.Atoi: an optional sign, then one or more digits that spell a
\* number an int can hold; anything else is an error.
AtoiBody(body, neg) ==
    [err |-> ~(body # << >> /\ AllIn(body, Digits) /\ InRange(StripZeros(body), neg))]

Atoi(s) ==
    IF s # << >> /\ Head(s) \in {"+", "-"}
    THEN AtoiBody(Tail(s), Head(s) = "-")
    ELSE AtoiBody(s, FALSE)

Integer(r, param, o) ==
    IF Atoi(FormGet(r, param)).err
    THEN Errorf(<<param, " must be an integer">>)
    ELSE NilError

Boolean(r, param, o) ==
    LET value == FormGet(r, param)
    IN  IF value \in {<<"t", "r", "u", "e">>, <<"f", "a", "l", "s", "e">>, <<"1">>, <<"0">>}
        THEN NilError
        ELSE Errorf(<<param, " must be a boolean value">>)

MaxLength(r, param, o) ==
    LET value == FormGet(r, param)
        a == AssertInt(o, "length")
        max == IF ~a.ok THEN 0 ELSE a.val
    IN  IF ByteLen(value) > max
        THEN Errorf(<<param, " cannot be longer than ", ToString(max), " characters">>)
        ELSE NilError

MinLength(r, param, o) ==
    LET value == FormGet(r, param)
        a == AssertInt(o, "length")
        min == IF ~a.ok THEN 0 ELSE a.val
    IN  IF ByteLen(value) < min
        THEN Errorf(<<param, " must be longer than ", ToString(min), " characters">>)
        ELSE NilError

\* (the message quotes the pattern in backquotes, written ' here)
Regex(r, param, o) ==
    LET value == FormGet(r, param)
        a == AssertString(o, "pattern")
    IN  IF ~a.ok
        THEN Errorf(<<"unable to create regex to validate ", param, " parameter">>)
        ELSE IF ~MatchString(a.val, value).pass
        THEN Errorf(<<param, " did not match regex '", a.val, "'">>)
        ELSE NilError

\* A NotRegex that fails on a pattern that does not compile; C18 tells them
\* apart.
NotRegexStrict(r, param, o) ==
    IF ~AssertString(o, "pattern").ok
    THEN Errorf(<<"unable to create regex to validate ", param, " parameter">>)
    ELSE IF MatchString(AssertString(o, "pattern").val, FormGet(r, param)).pass
            \/ MatchString(AssertString(o, "pattern").val, FormGet(r, param)).err
    THEN Errorf(<<param, " must not match regex '", AssertString(o, "pattern").val, "'">>)
    ELSE NilError

NotRegex(r, param, o) ==
    LET value == FormGet(r, param)
        a == AssertString(o, "pattern")
    IN  IF ~a.ok
        THEN Errorf(<<"unable to create regex to validate ", param, " parameter">>)
        ELSE IF MatchString(a.val, value).pass
        THEN Errorf(<<param, " must not match regex '", a.val, "'">>)
        ELSE NilError

\* An Email that only counts the @ signs; C16 tells them apart.
EmailCountOnly(r, param, o) ==
    IF CountChar(FormGet(r, param), "@") # 1
    THEN Errorf(<<param, " is not a valid email address">>)
    ELSE NilError

Email(r, param, o) ==
    LET value == FormGet(r, param)
        atCount == CountChar(value, "@")
    IN  IF atCount # 1
        THEN Errorf(<<param, " is not a valid email address">>)
        ELSE IF MatchString(PatEmail, value).pass
        THEN NilError
        ELSE Errorf(<<param, " is not a valid email address">>)

\* strings.Split(email, "@"), last part: what follows the final "@".
RECURSIVE getDomain(_)
getDomain(email) ==
    IF \A i \in 1..Len(email) : email[i] # "@"
    THEN email
    ELSE getDomain(Tail(email))

\* net.Resolver.LookupMX under context.WithTimeout(timeout seconds): the
\* deadline passes when the answer takes at least that long.
getMXRecords(r, domain, timeout) ==
    IF timeout <= r.net.delay \/ r.net.answer = "error"
    THEN [records |-> 0, err |-> TRUE]
    ELSE [records |-> IF r.net.answer = "records" THEN 1 ELSE 0, err |-> FALSE]

DefaultTimeout == 5

\* An MXEmail that takes an answer without records for a pass; C12 tells
\* them apart.
MXEmailAnyAnswer(r, param, o) ==
    IF ~IsNil(Email(r, param, NilOptions)) THEN Email(r, param, NilOptions)
    ELSE IF getMXRecords(r, getDomain(FormGet(r, param)),
                         IF AssertInt(o, "timeout").ok THEN AssertInt(o, "timeout").val
                         ELSE DefaultTimeout).err
    THEN Errorf(<<"the host ", Join(getDomain(FormGet(r, param))), " is not a valid email provider">>)
    ELSE NilError

MXEmail(r, param, o) ==
    LET e == Email(r, param, NilOptions)
        a == AssertInt(o, "timeout")
        timeout == IF ~a.ok THEN DefaultTimeout ELSE a.val
        domain == getDomain(FormGet(r, param))
        got == getMXRecords(r, domain, timeout)
    IN  IF ~IsNil(e) THEN e
        ELSE IF got.err
        THEN Errorf(<<"the host ", Join(domain), " is not a valid email provider">>)
        ELSE IF got.records = 0
        THEN Errorf(<<"no MX records exist for ", param>>)
        ELSE NilError

\* The calls of getMXRecords one MXEmail makes: none when it returns
\* Email's error before it gets there, else one.
MXEmailLookups(r, param, o) ==
    IF ~IsNil(Email(r, param, NilOptions)) THEN 0 ELSE 1

(***************************************************************************)
(* time.Parse(layout, value).  A layout is known by its text; the table    *)
(* LayoutChunks gives its elements as time.nextStdChunk cuts them:         *)
(* E(x) a reference element, L(c) a literal character.  The parser below   *)
(* follows time.Parse (Go 1.13) for the elements these layouts use.        *)
(***************************************************************************)
E(x) == [k |-> "std", x |-> x]
L(c) == [k |-> "lit", x |-> c]

ANSIC == "Mon Jan _2 15:04:05 2006"
UnixDateLayout == "Mon Jan _2 15:04:05 MST 2006"
RubyDate == "Mon Jan 02 15:04:05 -0700 2006"
RFC822Layout == "02 Jan 06 15:04 MST"
RFC822Z == "02 Jan 06 15:04 -0700"
RFC850 == "Monday, 02-Jan-06 15:04:05 MST"
RFC1123Layout == "Mon, 02 Jan 2006 15:04:05 MST"
RFC1123Z == "Mon, 02 Jan 2006 15:04:05 -0700"
RFC3339Layout == "2006-01-02T15:04:05Z07:00"
RFC3339Nano == "2006-01-02T15:04:05.999999999Z07:00"
Kitchen == "3:04PM"
Stamp == "Jan _2 15:04:05"
StampMilli == "Jan _2 15:04:05.000"
StampMicro == "Jan _2 15:04:05.000000"
StampNano == "Jan _2 15:04:05.000000000"
LayoutDashes == "2006-01-02"
LayoutSlashes == "2006/01/02"

LayoutChunks(layout) ==
    CASE layout = ANSIC ->
            <<E("Mon"), L(" "), E("Jan"), L(" "), E("_2"), L(" "),
               E("15"), L(":"), E("04"), L(":"), E("05"), L(" "),
               E("2006")>>
      [] layout = UnixDateLayout ->
            <<E("Mon"), L(" "), E("Jan"), L(" "), E("_2"), L(" "),
               E("15"), L(":"), E("04"), L(":"), E("05"), L(" "),
               E("MST"), L(" "), E("2006")>>
      [] layout = RubyDate ->
            <<E("Mon"), L(" "), E("Jan"), L(" "), E("02"), L(" "),
               E("15"), L(":"), E("04"), L(":"), E("05"), L(" "),
               E("-0700"), L(" "), E("2006")>>
      [] layout = RFC822Layout ->
            <<E("02"), L(" "), E("Jan"), L(" "), E("06"), L(" "),
               E("15"), L(":"), E("04"), L(" "), E("MST")>>
      [] layout = RFC822Z ->
            <<E("02"), L(" "), E("Jan"), L(" "), E("06"), L(" "),
               E("15"), L(":"), E("04"), L(" "), E("-0700")>>
      [] layout = RFC850 ->
            <<E("Monday"), L(","), L(" "), E("02"), L("-"), E("Jan"),
               L("-"), E("06"), L(" "), E("15"), L(":"), E("04"),
               L(":"), E("05"), L(" "), E("MST")>>
      [] layout = RFC1123Layout ->
            <<E("Mon"), L(","), L(" "), E("02"), L(" "), E("Jan"),
               L(" "), E("2006"), L(" "), E("15"), L(":"), E("04"),
               L(":"), E("05"), L(" "), E("MST")>>
      [] layout = RFC1123Z ->
            <<E("Mon"), L(","), L(" "), E("02"), L(" "), E("Jan"),
               L(" "), E("2006"), L(" "), E("15"), L(":"), E("04"),
               L(":"), E("05"), L(" "), E("-0700")>>
      [] layout = RFC3339Layout ->
            <<E("2006"), L("-"), E("01"), L("-"), E("02"), L("T"),
               E("15"), L(":"), E("04"), L(":"), E("05"), E("Z07:00")>>
      [] layout = RFC3339Nano ->
            <<E("2006"), L("-"), E("01"), L("-"), E("02"), L("T"),
               E("15"), L(":"), E("04"), L(":"), E("05"),
               E(".999999999"), E("Z07:00")>>
      [] layout = Kitchen ->
            <<E("3"), L(":"), E("04"), E("PM")>>
      [] layout = Stamp ->
            <<E("Jan"), L(" "), E("_2"), L(" "), E("15"), L(":"),
               E("04"), L(":"), E("05")>>
      [] layout = StampMilli ->
            <<E("Jan"), L(" "), E("_2"), L(" "), E("15"), L(":"),
               E("04"), L(":"), E("05"), E(".000")>>
      [] layout = StampMicro ->
            <<E("Jan"), L(" "), E("_2"), L(" "), E("15"), L(":"),
               E("04"), L(":"), E("05"), E(".000000")>>
      [] layout = StampNano ->
            <<E("Jan"), L(" "), E("_2"), L(" "), E("15"), L(":"),
               E("04"), L(":"), E("05"), E(".000000000")>>
      [] layout = LayoutDashes ->
            <<E("2006"), L("-"), E("01"), L("-"), E("02")>>
      [] layout = LayoutSlashes ->
            <<E("2006"), L("/"), E("01"), L("/"), E("02")>>
      [] OTHER -> << >>

shortMonthNames ==
    <<<<"J", "a", "n">>,
     <<"F", "e", "b">>,
     <<"M", "a", "r">>,
     <<"A", "p", "r">>,
     <<"M", "a", "y">>,
     <<"J", "u", "n">>,
     <<"J", "u", "l">>,
     <<"A", "u", "g">>,
     <<"S", "e", "p">>,
     <<"O", "c", "t">>,
     <<"N", "o", "v">>,
     <<"D", "e", "c">>>>
shortDayNames ==
    <<<<"S", "u", "n">>,
     <<"M", "o", "n">>,
     <<"T", "u", "e">>,
     <<"W", "e", "d">>,
     <<"T", "h", "u">>,
     <<"F", "r", "i">>,
     <<"S", "a", "t">>>>
longDayNames ==
    <<<<"S", "u", "n", "d", "a", "y">>,
     <<"M", "o", "n", "d", "a", "y">>,
     <<"T", "u", "e", "s", "d", "a", "y">>,
     <<"W", "e", "d", "n", "e", "s", "d", "a", "y">>,
     <<"T", "h", "u", "r", "s", "d", "a", "y">>,
     <<"F", "r", "i", "d", "a", "y">>,
     <<"S", "a", "t", "u", "r", "d", "a", "y">>>>
LowerCase == 
    <<"a", "b", "c", "d", "e", "f", "g", "h", "i", "j", "k", "l", "m",
     "n", "o", "p", "q", "r", "s", "t", "u", "v", "w", "x", "y", "z">>
UpperCase == 
    <<"A", "B", "C", "D", "E", "F", "G", "H", "I", "J", "K", "L", "M",
     "N", "O", "P", "Q", "R", "S", "T", "U", "V", "W", "X", "Y", "Z">>
DigitChars == <<"0", "1", "2", "3", "4", "5", "6", "7", "8", "9">>

isDigit(s, i) == Len(s) >= i + 1 /\ s[i + 1] \in Digits
DigitVal(c) == (CHOOSE i \in 1..10 : DigitChars[i] = c) - 1
Drop(s, n) == SubSeq(s, n + 1, Len(s))
Take(s, n) == SubSeq(s, 1, n)

RECURSIVE NumVal(_)
NumVal(ds) == IF ds = << >> THEN 0 ELSE 10 * NumVal(Take(ds, Len(ds) - 1)) + DigitVal(ds[Len(ds)])

RECURSIVE LeadingDigits(_)
LeadingDigits(s) == IF isDigit(s, 0) THEN 1 + LeadingDigits(Tail(s)) ELSE 0

\* The number the digits after position `from` spell: 0 when there are none.
LeadingInt(s, from) == NumVal(SubSeq(s, from + 1, from + LeadingDigits(Drop(s, from))))

\* time.atoi: an optional sign, then digits to the end.
atoiDigits(digits, neg) ==
    IF ~AllIn(digits, Digits) THEN [ok |-> FALSE, val |-> 0]
    ELSE [ok |-> TRUE, val |-> IF neg THEN 0 - NumVal(digits) ELSE NumVal(digits)]

timeAtoi(s) ==
    IF s # << >> /\ Head(s) \in {"+", "-"}
    THEN atoiDigits(Tail(s), Head(s) = "-")
    ELSE atoiDigits(s, FALSE)

\* time.getnum: one or two digits; exactly two when fixed.
getnum(s, fixed) ==
    IF ~isDigit(s, 0) THEN [ok |-> FALSE, val |-> 0, rest |-> s]
    ELSE IF ~isDigit(s, 1)
    THEN IF fixed THEN [ok |-> FALSE, val |-> 0, rest |-> s]
         ELSE [ok |-> TRUE, val |-> DigitVal(s[1]), rest |-> Tail(s)]
    ELSE [ok |-> TRUE, val |-> 10 * DigitVal(s[1]) + DigitVal(s[2]), rest |-> Drop(s, 2)]

IsUpper(c) == \E i \in 1..26 : UpperCase[i] = c
ToLower(c) == IF IsUpper(c) THEN LowerCase[CHOOSE i \in 1..26 : UpperCase[i] = c] ELSE c

\* time.match: equal but for the case of ASCII letters.
match(s1, s2) == Len(s1) = Len(s2) /\ \A i \in 1..Len(s1) : ToLower(s1[i]) = ToLower(s2[i])

\* time.lookup: the first name of the table the value starts with.
StartsWith(val, name) == Len(val) >= Len(name) /\ match(Take(val, Len(name)), name)

RECURSIVE lookupFrom(_, _, _)
lookupFrom(tab, val, i) ==
    IF i > Len(tab) THEN [ok |-> FALSE, idx |-> 0, rest |-> val]
    ELSE IF StartsWith(val, tab[i]) THEN [ok |-> TRUE, idx |-> i, rest |-> Drop(val, Len(tab[i]))]
    ELSE lookupFrom(tab, val, i + 1)

lookup(tab, val) == lookupFrom(tab, val, 1)

RECURSIVE cutspace(_)
cutspace(s) == IF s # << >> /\ Head(s) = " " THEN cutspace(Tail(s)) ELSE s

RECURSIVE cutspaceChunks(_)
cutspaceChunks(chunks) ==
    IF chunks # << >> /\ Head(chunks) = L(" ") THEN cutspaceChunks(Tail(chunks)) ELSE chunks

isLeap(year) == year % 4 = 0 /\ (year % 100 # 0 \/ year % 400 = 0)

daysIn(month, year) ==
    IF month = 2 THEN (IF isLeap(year) THEN 29 ELSE 28)
    ELSE IF month \in {4, 6, 9, 11} THEN 30 ELSE 31

RECURSIVE UpperRun(_, _)
UpperRun(s, n) ==
    IF n < 6 /\ s # << >> /\ IsUpper(Head(s)) THEN UpperRun(Tail(s), n + 1) ELSE n

\* An hour offset (a sign at position 1, then n digits spelling x) that
\* time.parseGMT and time.parseSignedOffset accept.
OffsetOk(sign, n, x) ==
    n > 0 /\ x # 0 /\ ~(sign = "-" /\ x > 14) /\ ~(sign = "+" /\ x > 12)

\* time.parseSignedOffset: a sign, then an hour; 0 when it is not one.
parseSignedOffset(value) ==
    IF value # << >> /\ Head(value) \in {"+", "-"}
          /\ OffsetOk(Head(value), LeadingDigits(Tail(value)), LeadingInt(value, 1))
    THEN 1 + LeadingDigits(Tail(value))
    ELSE 0

\* time.parseGMT: "GMT", then possibly a signed hour.
parseGMT(value) == 3 + parseSignedOffset(Drop(value, 3))

\* The zone abbreviation n upper-case letters make, 0 when they make none.
zoneLetters(value, nUpper) ==
    IF nUpper = 5 /\ value[5] = "T" THEN 5
    ELSE IF nUpper = 4 /\ (value[4] = "T" \/ Take(value, 4) = <<"W", "I", "T", "A">>) THEN 4
    ELSE IF nUpper = 3 THEN 3
    ELSE 0

\* time.parseTimeZone: the length of the zone abbreviation the value starts
\* with, 0 when it starts with none.
parseTimeZone(value) ==
    IF Len(value) < 3 THEN 0
    ELSE IF Len(value) >= 4 /\ Take(value, 4) \in {<<"C", "h", "S", "T">>, <<"M", "e", "S", "T">>} THEN 4
    ELSE IF Take(value, 3) = <<"G", "M", "T">> THEN parseGMT(value)
    ELSE IF Head(value) \in {"+", "-"} THEN parseSignedOffset(value)
    ELSE zoneLetters(value, UpperRun(value, 0))

\* time.parseNanoseconds on the first nbytes of the value: "." and digits.
nanosOk(a) == a.ok /\ a.val >= 0
parseNanoseconds(value, nbytes) ==
    value # << >> /\ Head(value) = "." /\ nanosOk(timeAtoi(SubSeq(value, 2, nbytes)))

Bad(value, st) == [ok |-> FALSE, rest |-> value, st |-> st]
Good(value, st) == [ok |-> TRUE, rest |-> value, st |-> st]

\* The first reference element among the chunks still to come, "" if none.
RECURSIVE nextStd(_)
nextStd(chunks) ==
    IF chunks = << >> THEN ""
    ELSE IF Head(chunks).k = "std" THEN Head(chunks).x
    ELSE nextStd(Tail(chunks))

FracElements == {".000", ".000000", ".000000000", ".999999999"}
FracDigits(x) == CASE x = ".000" -> 3 [] x = ".000000" -> 6 [] OTHER -> 9

\* case stdYear: two digits, 69..99 of the 1900s, 00..68 of the 2000s
stdYear(a, value, st) ==
    IF ~a.ok THEN Bad(value, st)
    ELSE Good(Drop(value, 2), [st EXCEPT !.year = IF a.val >= 69 THEN a.val + 1900 ELSE a.val + 2000])

\* case stdLongYear: four digits
stdLongYear(a, value, st) ==
    IF ~a.ok THEN Bad(value, st) ELSE Good(Drop(value, 4), [st EXCEPT !.year = a.val])

\* case stdMonth: a month's short name
stdMonth(m, value, st) ==
    IF ~m.ok THEN Bad(value, st) ELSE Good(m.rest, [st EXCEPT !.month = m.idx])

\* case stdZeroMonth: 01..12
stdZeroMonth(n, value, st) ==
    IF ~n.ok \/ n.val <= 0 \/ 12 < n.val THEN Bad(value, st)
    ELSE Good(n.rest, [st EXCEPT !.month = n.val])

\* case stdWeekDay, stdLongWeekDay: a day's name, which is not checked
\* against the date
stdWeekDay(d, value, st) == IF ~d.ok THEN Bad(value, st) ELSE Good(d.rest, st)

\* case stdUnderDay, stdZeroDay: any one- or two-digit day; whether the
\* month has it is checked at the end
stdDay(n, value, st) ==
    IF ~n.ok THEN Bad(value, st) ELSE Good(n.rest, [st EXCEPT !.day = n.val])

\* case stdHour (below 24), stdHour12 (at most 12), stdZeroMinute (below 60)
stdBelow(n, limit, value, st) ==
    IF ~n.ok \/ limit <= n.val THEN Bad(value, st) ELSE Good(n.rest, st)

\* case stdZeroSecond: below 60; a fraction of a second in the value is
\* taken even when the layout has none
stdSecond(n, after, value, st) ==
    IF ~n.ok \/ 60 <= n.val THEN Bad(value, st)
    ELSE IF ~(Len(n.rest) >= 2 /\ n.rest[1] = "." /\ isDigit(n.rest, 1)
              /\ nextStd(after) \notin FracElements)
    THEN Good(n.rest, st)
    ELSE IF ~parseNanoseconds(n.rest, 1 + LeadingDigits(Tail(n.rest))) THEN Bad(value, st)
    ELSE Good(Drop(n.rest, 1 + LeadingDigits(Tail(n.rest))), st)

\* case stdPM
stdPM(value, st) ==
    IF Len(value) < 2 \/ Take(value, 2) \notin {<<"P", "M">>, <<"A", "M">>}
    THEN Bad(value, st)
    ELSE Good(Drop(value, 2), st)

\* case stdTZ: "UTC", or a zone abbreviation
stdTZ(n, value, st) ==
    IF Len(value) >= 3 /\ Take(value, 3) = <<"U", "T", "C">> THEN Good(Drop(value, 3), st)
    ELSE IF n = 0 THEN Bad(value, st)
    ELSE Good(Drop(value, n), st)

\* case stdISO8601ColonTZ ("Z07:00": "Z", or a sign, hh, ":", mm) and
\* stdNumTZ ("-0700": a sign, hh, mm); colon is 1 or 0
stdNumTZ(colon, z, value, st) ==
    IF z /\ Len(value) >= 1 /\ Head(value) = "Z" THEN Good(Tail(value), st)
    ELSE IF Len(value) < 5 + colon \/ (colon = 1 /\ value[4] # ":") THEN Bad(value, st)
    ELSE IF ~timeAtoi(SubSeq(value, 2, 3)).ok
            \/ ~timeAtoi(SubSeq(value, 4 + colon, 5 + colon)).ok
            \/ Head(value) \notin {"+", "-"}
    THEN Bad(value, st)
    ELSE Good(Drop(value, 5 + colon), st)

\* case stdFracSecond0: "." and exactly that many digits
stdFracSecond0(ndigit, value, st) ==
    IF Len(value) < ndigit \/ ~parseNanoseconds(value, ndigit) THEN Bad(value, st)
    ELSE Good(Drop(value, ndigit), st)

\* case stdFracSecond9: "." and up to nine digits, or nothing
stdFracSecond9(i, value, st) ==
    IF Len(value) < 2 \/ Head(value) # "." \/ ~isDigit(value, 1) THEN Good(value, st)
    ELSE IF ~parseNanoseconds(value, 1 + i) THEN Bad(value, st)
    ELSE Good(Drop(value, 1 + i), st)

Min(a, b) == IF a < b THEN a ELSE b
UnderDay(value) == IF value # << >> /\ Head(value) = " " THEN Tail(value) ELSE value

\* One reference element of time.Parse's switch: what it consumes of the
\* value and what it learns of the date (year, month, day).
ParseStd(x, value, after, st) ==
    CASE x = "06" ->
            IF Len(value) < 2 THEN Bad(value, st)
            ELSE stdYear(timeAtoi(Take(value, 2)), value, st)
      [] x = "2006" ->
            IF Len(value) < 4 \/ ~isDigit(value, 0) THEN Bad(value, st)
            ELSE stdLongYear(timeAtoi(Take(value, 4)), value, st)
      [] x = "Jan" -> stdMonth(lookup(shortMonthNames, value), value, st)
      [] x = "01" -> stdZeroMonth(getnum(value, TRUE), value, st)
      [] x = "Mon" -> stdWeekDay(lookup(shortDayNames, value), value, st)
      [] x = "Monday" -> stdWeekDay(lookup(longDayNames, value), value, st)
      [] x = "_2" -> stdDay(getnum(UnderDay(value), FALSE), value, st)
      [] x = "02" -> stdDay(getnum(value, TRUE), value, st)
      [] x = "15" -> stdBelow(getnum(value, FALSE), 24, value, st)
      [] x = "3" -> stdBelow(getnum(value, FALSE), 13, value, st)
      [] x = "03" -> stdBelow(getnum(value, TRUE), 13, value, st)
      [] x = "04" -> stdBelow(getnum(value, TRUE), 60, value, st)
      [] x = "05" -> stdSecond(getnum(value, TRUE), after, value, st)
      [] x = "PM" -> stdPM(value, st)
      [] x = "MST" -> stdTZ(parseTimeZone(value), value, st)
      [] x = "Z07:00" -> stdNumTZ(1, TRUE, value, st)
      [] x = "-0700" -> stdNumTZ(0, FALSE, value, st)
      [] x \in {".000", ".000000", ".000000000"} -> stdFracSecond0(1 + FracDigits(x), value, st)
      [] x = ".999999999" ->
            stdFracSecond9(Min(9, LeadingDigits(IF value = << >> THEN << >> ELSE Tail(value))), value, st)
      [] OTHER -> Bad(value, st)

RECURSIVE ParseChunks(_, _, _)

\* After an element e: go on with what it left, unless it failed.
RECURSIVE ParseRest(_, _)
ParseRest(after, e) == e.ok /\ ParseChunks(after, e.rest, e.st)

\* time.Parse's loop: literal text is skipped (a space of the layout stands
\* for any run of spaces), each element is parsed, nothing may be left over,
\* and the day must exist in its month.
ParseChunks(chunks, value, st) ==
    IF chunks = << >>
    THEN value = << >> /\ st.day >= 1 /\ st.day <= daysIn(st.month, st.year)
    ELSE LET c == Head(chunks)
             after == Tail(chunks)
         IN  IF c.k = "lit"
             THEN IF c.x = " "
                  THEN (value = << >> \/ Head(value) = " ")
                       /\ ParseChunks(cutspaceChunks(after), cutspace(value), st)
                  ELSE value # << >> /\ Head(value) = c.x
                       /\ ParseChunks(after, Tail(value), st)
             ELSE ParseRest(after, ParseStd(c.x, value, after, st))

\* _, err := time.Parse(format, value): TRUE when err is nil.
TimeParse(format, value) ==
    ParseChunks(LayoutChunks(format), value, [year |-> 0, month |-> 1, day |-> 1])

OFormat(format) == Options("format", OString(format))

DateFormat(r, param, o) ==
    LET value == FormGet(r, param)
        a == AssertString(o, "format")
    IN  IF ~a.ok
        THEN Errorf(<<"unable to create date format string">>)
        ELSE IF ~TimeParse(a.val, value)
        THEN Errorf(<<param, " does not satisfy date format ", a.val>>)
        ELSE NilError

RFC3339(r, param, o) == DateFormat(r, param, OFormat(RFC3339Layout))
RFC1123(r, param, o) == DateFormat(r, param, OFormat(RFC1123Layout))
RFC822(r, param, o) == DateFormat(r, param, OFormat(RFC822Layout))
UnixDate(r, param, o) == DateFormat(r, param, OFormat(UnixDateLayout))

BuiltinFormats ==
    <<ANSIC, UnixDateLayout, RubyDate, RFC822Layout, RFC822Z, RFC850,
      RFC1123Layout, RFC1123Z, RFC3339Layout, RFC3339Nano,
      Kitchen, Stamp, StampMilli, StampMicro, StampNano>>

\* A Date that tries the caller's formats in place of the built-in ones; C14
\* tells them apart.
DateOnlyCustom(r, param, o) ==
    IF OptExists(o, "formats") /\ ~AssertStrings(o.m["formats"]).ok
    THEN Errorf(<<"unable to create date format string">>)
    ELSE IF \E i \in 1..Len(IF OptExists(o, "formats") THEN AssertStrings(o.m["formats"]).val
                            ELSE BuiltinFormats) :
               IsNil(DateFormat(r, param,
                                OFormat((IF OptExists(o, "formats")
                                         THEN AssertStrings(o.m["formats"]).val
                                         ELSE BuiltinFormats)[i])))
    THEN NilError
    ELSE Errorf(<<param, " does not satisfy and date format">>)

Date(r, param, o) ==
    LET exists == OptExists(o, "formats")
        a == AssertStrings(o.m["formats"])
        formats == IF exists THEN BuiltinFormats \o a.val ELSE BuiltinFormats
    IN  IF exists /\ ~a.ok
        THEN Errorf(<<"unable to create date format string">>)
        ELSE IF \E i \in 1..Len(formats) : IsNil(DateFormat(r, param, OFormat(formats[i])))
        THEN NilError
        ELSE Errorf(<<param, " does not satisfy and date format">>)

(***************************************************************************)
(* Rules.  Check names a CheckFunc: one of the library, or one of the two  *)
(* closures the tests write, which fail whatever the request holds.        *)
(***************************************************************************)
Rule(param, check, options) == [Param |-> param, Check |-> check, Options |-> options]

\* func(r, param, _) error { return errors.New("forced failure") }
ForcedFailure(r, param, o) == Errorf(<<"forced failure">>)
\* func(r, param, _) error { return errors.New("fail") }
Fail(r, param, o) == Errorf(<<"fail">>)

\* rule.Check(v.request, rule.Param, rule.Options)
CallCheck(rule, r) ==
    CASE rule.Check = "ForcedFailure" -> ForcedFailure(r, rule.Param, rule.Options)
      [] rule.Check = "Fail" -> Fail(r, rule.Param, rule.Options)
      [] rule.Check = "Required" -> Required(r, rule.Param, rule.Options)
      [] rule.Check = "Alpha" -> Alpha(r, rule.Param, rule.Options)
      [] rule.Check = "Alphanumeric" -> Alphanumeric(r, rule.Param, rule.Options)
      [] rule.Check = "Integer" -> Integer(r, rule.Param, rule.Options)
      [] rule.Check = "Boolean" -> Boolean(r, rule.Param, rule.Options)
      [] rule.Check = "MaxLength" -> MaxLength(r, rule.Param, rule.Options)
      [] rule.Check = "MinLength" -> MinLength(r, rule.Param, rule.Options)
      [] rule.Check = "Regex" -> Regex(r, rule.Param, rule.Options)
      [] rule.Check = "NotRegex" -> NotRegex(r, rule.Param, rule.Options)
      [] rule.Check = "MXEmail" -> MXEmail(r, rule.Param, rule.Options)
      [] rule.Check = "Email" -> Email(r, rule.Param, rule.Options)
      [] rule.Check = "RFC3339" -> RFC3339(r, rule.Param, rule.Options)
      [] rule.Check = "RFC1123" -> RFC1123(r, rule.Param, rule.Options)
      [] rule.Check = "RFC822" -> RFC822(r, rule.Param, rule.Options)
      [] rule.Check = "UnixDate" -> UnixDate(r, rule.Param, rule.Options)
      [] rule.Check = "DateFormat" -> DateFormat(r, rule.Param, rule.Options)
      [] rule.Check = "Date" -> Date(r, rule.Param, rule.Options)

(***************************************************************************)
(* The Validator.                                                          *)
(***************************************************************************)
\* A Message that files every reason under the first field; C3 tells them
\* apart.
MessageOfFirstField(err, param) == [Error |-> err, Param |-> "forename"]

\* Message{Error: err.Error(), Param: rule.Param}
Message(err, param) == [Error |-> err, Param |-> param]

NoValidator == [made |-> FALSE, Rules |-> << >>]

\* Make(r, rule...): the request and the rules, as they are.
Make(rules) == [made |-> TRUE, Rules |-> rules]

\* An Add that puts the new rules in front; C6 tells them apart.
AddFront(val, rules) == [val EXCEPT !.Rules = rules \o val.Rules]

\* v.Rules = append(v.Rules, rules...)
Add(val, rules) == [val EXCEPT !.Rules = val.Rules \o rules]

\* Messages kept from the call before instead of a fresh slice; C5 tells them
\* apart.
StaleMessages == ret.msgs

\* vm := make([]Message, 0, len(v.Rules))
NewMessages == << >>

\* A Collect that puts the newest message first; C4 tells them apart.
CollectFront(vm, rule, err) ==
    IF ~IsNil(err) THEN <<Message(err, rule.Param)>> \o vm ELSE vm

\* vm = append(vm, Message{...}) when the check returned an error
Collect(vm, rule, err) ==
    IF ~IsNil(err) THEN Append(vm, Message(err, rule.Param)) ELSE vm

\* A loop that stops at the first check that fails; C17 tells them apart.
RECURSIVE RunLoopStopAtFailure(_, _, _, _)
RunLoopStopAtFailure(rules, r, vm, calls) ==
    IF rules = << >> \/ vm # << >> THEN [vm |-> vm, calls |-> calls]
    ELSE RunLoopStopAtFailure(Tail(rules), r, Collect(vm, Head(rules), CallCheck(Head(rules), r)),
                              Append(calls, Head(rules)))

\* The lookups of mail-exchange records the checks of a rule list make.
RECURSIVE Lookups(_, _)
Lookups(rules, r) ==
    IF rules = << >> THEN 0
    ELSE (IF Head(rules).Check = "MXEmail"
          THEN MXEmailLookups(r, Head(rules).Param, Head(rules).Options)
          ELSE 0)
         + Lookups(Tail(rules), r)

\* for _, rule := range v.Rules { ... }: the messages collected, and the
\* checks called, in the order they were called.
RECURSIVE RunLoop(_, _, _, _)
RunLoop(rules, r, vm, calls) ==
    IF rules = << >> THEN [vm |-> vm, calls |-> calls]
    ELSE LET rule == Head(rules)
             err == CallCheck(rule, r)
         IN  RunLoop(Tail(rules), r, Collect(vm, rule, err), Append(calls, rule))

NoRulesDefined == Errorf(<<"no rules defined on validator">>)
ValidationFailed == Errorf(<<"validation failed">>)

\* An Outcome that lets a single failure through; C2 tells them apart.
OutcomeLenient(vm) ==
    IF Len(vm) > 1
    THEN [msgs |-> vm, err |-> ValidationFailed]
    ELSE [msgs |-> << >>, err |-> NilError]

\* The outcome of the loop: the messages and an error, or nil, nil.
Outcome(vm) ==
    IF Len(vm) > 0
    THEN [msgs |-> vm, err |-> ValidationFailed]
    ELSE [msgs |-> << >>, err |-> NilError]

\* A Run without the guard on an empty rule list; C1 tells them apart.
RunUnguarded(val, r) ==
    [op |-> "Run",
     msgs |-> Outcome(RunLoop(val.Rules, r, NewMessages, << >>).vm).msgs,
     err |-> Outcome(RunLoop(val.Rules, r, NewMessages, << >>).vm).err,
     calls |-> RunLoop(val.Rules, r, NewMessages, << >>).calls,
     lookups |-> Lookups(val.Rules, r)]

\* v.Run()
Run(val, r) ==
    IF Len(val.Rules) = 0
    THEN [op |-> "Run", msgs |-> << >>, err |-> NoRulesDefined, calls |-> << >>, lookups |-> 0]
    ELSE LET loop == RunLoop(val.Rules, r, NewMessages, << >>)
             out == Outcome(loop.vm)
         IN  [op |-> "Run", msgs |-> out.msgs, err |-> out.err, calls |-> loop.calls,
              lookups |-> Lookups(val.Rules, r)]

(***************************************************************************)
(* Respond(w, m): json.Marshal(map[string][]Message{"errors": m}).  A      *)
(* struct is written as an object of its tagged fields, a slice as an      *)
(* array, a nil slice as null.                                             *)
(***************************************************************************)
JNull == [t |-> "null"]
JString(str) == [t |-> "string", s |-> str]
JArray(items) == [t |-> "array", items |-> items]
JObject(members) == [t |-> "object", members |-> members]
Member(key, value) == [key |-> key, value |-> value]

MarshalMessage(m) ==
    JObject(<<Member("error", JString(m.Error)), Member("param", JString(m.Param))>>)

MarshalMessages(m) ==
    IF m = << >> THEN JNull
    ELSE JArray([i \in 1..Len(m) |-> MarshalMessage(m[i])])

StatusUnprocessableEntity == 422

NoResponse == [written |-> FALSE, status |-> 0, contentType |-> "", m |-> << >>, body |-> JNull]

Respond(m) ==
    [written |-> TRUE,
     status |-> StatusUnprocessableEntity,
     contentType |-> "application/json",
     m |-> m,
     body |-> JObject(<<Member("errors", MarshalMessages(m))>>)]

(***************************************************************************)
(* The inputs the model draws from.                                        *)
(***************************************************************************)
Value(has, vals) == [has |-> has, vals |-> vals]

\* What a request may carry in its URL query.
Queries ==
    {[p \in Params |-> NoValues],
     [p \in Params |-> IF p = "forename" THEN Value(TRUE, <<<< >>>>) ELSE NoValues],
     [p \in Params |-> IF p = "forename" THEN Value(TRUE, <<<<"a">>>>) ELSE Value(TRUE, <<<<"1">>>>)]}

\* Values the handler sets with r.Form.Set.
SetValues == {<< >>, <<"a">>}

\* The rules a Validator is given in the specification Spec.
SpecRules ==
    {Rule("forename", "ForcedFailure", NilOptions),
     Rule("forename", "Fail", NilOptions),
     Rule("surname", "Required", NilOptions),
     Rule("forename", "MinLength", Options("length", OInt(1)))}

RuleSeqs(rules, n) == UNION {[1..k -> rules] : k \in 0..n}

\* Values tried against the Check Library in the specification SpecCheck:
\* every short string over Alphabet, and the samples.
Alphabet == {"a", "1", "@"}
ShortValues == UNION {[1..k -> Alphabet] : k \in 0..MaxLen}
Samples ==
    {<<"m", "e", "@", "t", "o", "m", "m", ".", "u", "s">>,
     <<"m", "e", "@", "s", "o", "m", "e", "t", "h", "i", "n", "g", "@", "t", "o", "m", "m", ".", "u", "s">>,
     <<"1", "9", "9", "3", "-", "1", "0", "-", "1", "8", "T", "1", "0", ":", "1", "0", ":", "1", "0", "-", "0", "2", ":", "0", "0">>,
     <<"2", "0", "1", "6", "/", "0", "2", "/", "2", "9">>,
     <<"2", "0", "1", "9", "-", "0", "8", "-", "0", "1">>,
     <<"2", "2", " ", "J", "u", "n", " ", "9", "2", " ", "1", "5", ":", "0", "4", " ", "U", "T", "C">>,
     <<"t", "r", "u", "e">>,
     <<"9", "2", "2", "3", "3", "7", "2", "0", "3", "6", "8", "5", "4", "7", "7", "5", "8", "0", "8">>,
     <<"é", "a">>,
     <<"a", " ", "@", "b">>,
     <<"a", "a", "a", "a", "1">>}
CheckValues == ShortValues \cup Samples

OptionChoices(check) ==
    CASE check \in {"MaxLength", "MinLength"} ->
            {NilOptions, Options("length", OInt(2)), Options("length", OString("2")),
             Options("pattern", OString(PatBad))}
      [] check \in {"Regex", "NotRegex"} ->
            {NilOptions, Options("pattern", OString(PatDigitsLetters)),
             Options("pattern", OString(PatBad)), Options("pattern", OInt(2)),
             Options("length", OInt(2))}
      [] check = "MXEmail" ->
            {NilOptions, Options("timeout", OInt(10)), Options("timeout", OString("10"))}
      [] check = "DateFormat" ->
            {NilOptions, Options("format", OString(LayoutSlashes)), Options("format", OInt(2)),
             Options("length", OInt(2))}
      [] check = "Date" ->
            {NilOptions, Options("formats", OStrings(<<LayoutDashes>>)),
             Options("formats", OString(LayoutDashes)), Options("length", OInt(2))}
      [] OTHER -> {NilOptions}

LibraryChecks ==
    {"Required", "Alpha", "Alphanumeric", "Integer", "Boolean", "MaxLength", "MinLength",
     "Regex", "NotRegex", "MXEmail", "Email", "RFC3339", "RFC1123", "RFC822", "UnixDate",
     "DateFormat", "Date"}

LibraryRules ==
    UNION {{Rule("forename", c, o) : o \in OptionChoices(c)} : c \in LibraryChecks}

\* What the resolver may answer to an MX lookup, and after how many seconds.
Resolvers ==
    {[answer |-> "records", delay |-> 0], [answer |-> "records", delay |-> 7],
     [answer |-> "none", delay |-> 0], [answer |-> "error", delay |-> 0]}
Reachable == [answer |-> "records", delay |-> 0]

(***************************************************************************)
(* Slices.  A []Rule is a header (array, len) onto a backing array whose   *)
(* length is the capacity; array 0 is that of the nil slice.  Make(r,      *)
(* rules...) keeps the caller's header, so the Validator and the caller    *)
(* share the array, and append writes into spare capacity in place.        *)
(***************************************************************************)
\* The zero value of Rule, in cells past the length.
ZeroRule == Rule("", "nil", NilOptions)

Header(arr, n) == [arr |-> arr, len |-> n]
NilSlice == Header(0, 0)

Cap(heap, h) == IF h.arr = 0 THEN 0 ELSE Len(heap[h.arr])

\* The elements of a slice.
Elems(heap, h) == IF h.arr = 0 THEN << >> ELSE SubSeq(heap[h.arr], 1, h.len)

Padding(n) == [i \in 1..n |-> ZeroRule]

\* make([]Rule, len, cap) filled with the rules.
MakeSlice(rules, cap) == rules \o Padding(cap - Len(rules))

\* The capacity append grows a full slice of these small sizes to: double,
\* or what is needed when that is more.
GrownCap(cap, needed) == IF needed > 2 * cap THEN needed ELSE 2 * cap

\* append(s, rule): in place when there is spare capacity, else into a new
\* array with the old elements copied.
AppendHeap(heap, h, rule) ==
    IF h.len < Cap(heap, h)
    THEN [heap EXCEPT ![h.arr] = [@ EXCEPT ![h.len + 1] = rule]]
    ELSE Append(heap, MakeSlice(Append(Elems(heap, h), rule), GrownCap(Cap(heap, h), h.len + 1)))

AppendHeader(heap, h) ==
    IF h.len < Cap(heap, h)
    THEN Header(h.arr, h.len + 1)
    ELSE Header(Len(heap) + 1, h.len + 1)

NoLast == [op |-> "none", i |-> 0, before |-> << >>, caller |-> << >>]

NoMem == [heap |-> << >>, caller |-> NilSlice, vs |-> << >>, last |-> NoLast]

\* The rule lists of the Validators, and the caller's rules, as they read now.
RuleLists(m) == [j \in 1..Len(m.vs) |-> Elems(m.heap, m.vs[j])]
CallerRules(m) == Elems(m.heap, m.caller)

\* rules := make([]Rule, len, cap), filled
CallerMem(rules, cap) ==
    [heap |-> <<MakeSlice(rules, cap)>>, caller |-> Header(1, Len(rules)), vs |-> << >>,
     last |-> NoLast]

\* Make(r, rules...): Rules is the slice it was handed.
MakeShared(m) ==
    [m EXCEPT !.vs = Append(m.vs, m.caller),
              !.last = [op |-> "Make", i |-> Len(m.vs) + 1, before |-> RuleLists(m),
                        caller |-> CallerRules(m)]]

\* v.Add(rule) on the i-th Validator: v.Rules = append(v.Rules, rule)
AddShared(m, i, rule) ==
    [m EXCEPT !.heap = AppendHeap(m.heap, m.vs[i], rule),
              !.vs = [m.vs EXCEPT ![i] = AppendHeader(m.heap, m.vs[i])],
              !.last = [op |-> "Add", i |-> i, before |-> RuleLists(m),
                        caller |-> CallerRules(m)]]

\* The rules the caller and the Adds draw from.
SharedRules ==
    {Rule("forename", "Fail", NilOptions), Rule("surname", "Required", NilOptions)}

(***************************************************************************)
(* The state machine: the calls a handler makes on one request.            *)
(***************************************************************************)
Ret(op) == [op |-> op, msgs |-> << >>, err |-> NilError, calls |-> << >>, lookups |-> 0]
NoRet == Ret("none")

\* The request as the checks see it.
R == [Form |-> Form, net |-> mx]

Init ==
    /\ Form = NilForm
    /\ query \in Queries
    /\ v = NoValidator
    /\ ret = NoRet
    /\ prev = NoRet
    /\ passed = << >>
    /\ resp = NoResponse
    /\ mx = Reachable
    /\ mem = NoMem

\* r.ParseForm()
DoParseForm ==
    /\ ~resp.written
    /\ Form' = ParseForm(Form, query)
    /\ ret' = Ret("ParseForm")
    /\ prev' = NoRet
    /\ UNCHANGED <<query, v, passed, resp, mx, mem>>

\* r.Form.Set(param, value), on a Form that is there
DoFormSet(param, value) ==
    /\ ~resp.written
    /\ ~Form.nil
    /\ Form' = FormSet(Form, param, value)
    /\ ret' = Ret("FormSet")
    /\ prev' = NoRet
    /\ UNCHANGED <<query, v, passed, resp, mx, mem>>

\* validator := Make(r, rules...)
DoMake(rules) ==
    /\ ~resp.written
    /\ v' = Make(rules)
    /\ passed' = rules
    /\ ret' = Ret("Make")
    /\ prev' = NoRet
    /\ UNCHANGED <<Form, query, resp, mx, mem>>

\* validator.Add(rules...)
DoAdd(rules) ==
    /\ ~resp.written
    /\ v.made
    /\ Len(v.Rules) + Len(rules) <= MaxRules
    /\ v' = Add(v, rules)
    /\ passed' = passed \o rules
    /\ ret' = Ret("Add")
    /\ prev' = NoRet
    /\ UNCHANGED <<Form, query, resp, mx, mem>>

\* msgs, err := validator.Run()
DoRun ==
    /\ ~resp.written
    /\ v.made
    /\ ret' = Run(v, R)
    /\ prev' = IF ret.op = "Run" THEN ret ELSE NoRet
    /\ UNCHANGED <<Form, query, v, passed, resp, mx, mem>>

\* msgs, err := Check(r, rules...): Make(r, rules...).Run()
DoCheck(rules) ==
    /\ ~resp.written
    /\ v' = Make(rules)
    /\ passed' = rules
    /\ ret' = Run(Make(rules), R)
    /\ prev' = NoRet
    /\ UNCHANGED <<Form, query, resp, mx, mem>>

\* Respond(w, msgs) with what Run returned; the handler is finished then
DoRespond ==
    /\ ~resp.written
    /\ ret.op = "Run"
    /\ resp' = Respond(ret.msgs)
    /\ UNCHANGED <<Form, query, v, ret, prev, passed, mx, mem>>

Next ==
    \/ DoParseForm
    \/ \E p \in Params, value \in SetValues : DoFormSet(p, value)
    \/ \E rules \in RuleSeqs(SpecRules, MaxArgs) : DoMake(rules)
    \/ \E rules \in RuleSeqs(SpecRules, MaxArgs) : DoAdd(rules)
    \/ DoRun
    \/ \E rules \in RuleSeqs(SpecRules, MaxArgs) : DoCheck(rules)
    \/ DoRespond

Spec == Init /\ [][Next]_vars

(***************************************************************************)
(* SpecCheck: the Check Library, one rule at a time, as the tests of the   *)
(* rules drive it: r.Form.Set("parameter", value), then Check(r, rule).    *)
(***************************************************************************)
InitCheck ==
    /\ Form = NilForm
    /\ query = [p \in Params |-> NoValues]
    /\ v = NoValidator
    /\ ret = NoRet
    /\ prev = NoRet
    /\ passed = << >>
    /\ resp = NoResponse
    /\ mx \in Resolvers
    /\ mem = NoMem

NextCheck ==
    \/ DoParseForm
    \/ \E value \in CheckValues : DoFormSet("forename", value)
    \/ \E rule \in LibraryRules : DoCheck(<<rule>>)

SpecCheck == InitCheck /\ [][NextCheck]_vars

(***************************************************************************)
(* SpecShare: a caller builds one slice of rules, makes Validators from    *)
(* it with Make(r, rules...), and adds rules to them in any order.         *)
(***************************************************************************)
InitShare ==
    /\ Form = NilForm
    /\ query = [p \in Params |-> NoValues]
    /\ v = NoValidator
    /\ ret = NoRet
    /\ prev = NoRet
    /\ passed = << >>
    /\ resp = NoResponse
    /\ mx = Reachable
    /\ \E rules \in RuleSeqs(SharedRules, 1), cap \in 0..MaxCap :
          /\ Len(rules) <= cap
          /\ mem = CallerMem(rules, cap)

\* v := Make(r, rules...), for at most two Validators
DoMakeShared ==
    /\ Len(mem.vs) < 2
    /\ mem' = MakeShared(mem)
    /\ UNCHANGED <<Form, query, v, ret, prev, passed, resp, mx>>

\* v.Add(rule)
DoAddShared(i, rule) ==
    /\ i \in 1..Len(mem.vs)
    /\ mem.vs[i].len < MaxRules
    /\ mem' = AddShared(mem, i, rule)
    /\ UNCHANGED <<Form, query, v, ret, prev, passed, resp, mx>>

NextShare ==
    \/ DoMakeShared
    \/ \E i \in 1..2, rule \in SharedRules : DoAddShared(i, rule)

SpecShare == InitShare /\ [][NextShare]_vars

(***************************************************************************)
(* The properties.  What Run returned is in ret, the Validator it ran is  *)
(* v, and the request it read is R: no action changes Form, v or mx        *)
(* without replacing ret.                                                   *)
(***************************************************************************)
\* The rules of a list whose check fails on the request, by position.
Failing(rules, r) == {i \in 1..Len(rules) : ~IsNil(CallCheck(rules[i], r))}

\* The reasons the messages give for one field, in the order they are given.
RECURSIVE ReasonsFor(_, _)
ReasonsFor(msgs, p) ==
    IF msgs = << >> THEN << >>
    ELSE (IF Head(msgs).Param = p THEN <<Head(msgs).Error>> ELSE << >>)
         \o ReasonsFor(Tail(msgs), p)

\* The reasons the failing rules on one field return, in the order of the
\* rule list.
RECURSIVE FailuresOn(_, _, _)
FailuresOn(rules, r, p) ==
    IF rules = << >> THEN << >>
    ELSE (IF Head(rules).Param = p /\ ~IsNil(CallCheck(Head(rules), r))
          THEN <<CallCheck(Head(rules), r)>> ELSE << >>)
         \o FailuresOn(Tail(rules), r, p)

OnlyRule(check) == Len(v.Rules) = 1 /\ v.Rules[1].Check = check

\* C1: Run on a Validator whose rule list is empty returns the no-rules
\* error, which is not the validation-failed error, and no messages.
C1_EmptyRuleset ==
    (ret.op = "Run" /\ v.Rules = << >>) =>
        /\ ret.err = NoRulesDefined
        /\ ~IsNil(ret.err)
        /\ ret.err # ValidationFailed
        /\ ret.msgs = << >>

C1_Witness == ret.op = "Run" /\ v.made /\ v.Rules = << >> /\ passed = << >>

\* C2: with a non-empty rule list, Run returns the validation-failed error
\* and a non-empty list of messages exactly when some rule's check fails,
\* and otherwise nil and no messages; no message it returns has an empty
\* reason.
C2_FailedIffSomeCheckFails ==
    (ret.op = "Run" /\ v.Rules # << >>) =>
        /\ (ret.err = ValidationFailed /\ ret.msgs # << >>) <=> Failing(v.Rules, R) # {}
        /\ Failing(v.Rules, R) = {} => (IsNil(ret.err) /\ ret.msgs = << >>)
        /\ \A k \in 1..Len(ret.msgs) : ~IsNil(ret.msgs[k].Error)
        /\ \A p \in Params : (\E k \in 1..Len(ret.msgs) : ret.msgs[k].Param = p)
                                 => ReasonsFor(ret.msgs, p) # << >>

C2_Witness ==
    /\ ret.op = "Run"
    /\ Cardinality(Failing(v.Rules, R)) = 1
    /\ Len(v.Rules) > 1
    /\ ret.err = ValidationFailed

\* C3: the messages Run returns are exactly the failing rules: every failing
\* rule gives one message, with the reason its check returned and its own
\* field, a passing rule gives none, and so the messages are as many as the
\* failing rules and never more than the rules.
C3_ExactlyFailingRules ==
    ret.op = "Run" =>
        /\ Len(ret.msgs) = Cardinality(Failing(v.Rules, R))
        /\ Len(ret.msgs) <= Len(v.Rules)
        /\ \A i \in Failing(v.Rules, R) :
              Cardinality({k \in 1..Len(ret.msgs) :
                              /\ ret.msgs[k].Param = v.Rules[i].Param
                              /\ ret.msgs[k].Error = CallCheck(v.Rules[i], R)})
              = Cardinality({j \in Failing(v.Rules, R) :
                              /\ v.Rules[j].Param = v.Rules[i].Param
                              /\ CallCheck(v.Rules[j], R) = CallCheck(v.Rules[i], R)})
        /\ \A k \in 1..Len(ret.msgs) :
              \E i \in Failing(v.Rules, R) :
                  /\ ret.msgs[k].Param = v.Rules[i].Param
                  /\ ret.msgs[k].Error = CallCheck(v.Rules[i], R)

C3_Witness ==
    /\ ret.op = "Run"
    /\ v.Rules = <<Rule("forename", "ForcedFailure", NilOptions)>>
    /\ ret.msgs = <<[Error |-> <<"forced failure">>, Param |-> "forename"]>>
    /\ ret.err = ValidationFailed

\* C4: the reasons given for a field are those of the failing rules on that
\* field, one each, in the order of the rule list, whatever rules on other
\* fields stand between them.
C4_FieldOrderIsRuleOrder ==
    ret.op = "Run" =>
        \A p \in Params : ReasonsFor(ret.msgs, p) = FailuresOn(v.Rules, R, p)

C4_Witness ==
    /\ ret.op = "Run"
    /\ Len(v.Rules) = 3
    /\ v.Rules[1].Param = "forename"
    /\ v.Rules[2].Param = "surname"
    /\ v.Rules[3].Param = "forename"
    /\ ReasonsFor(ret.msgs, "forename") = <<CallCheck(v.Rules[1], R), CallCheck(v.Rules[3], R)>>
    /\ CallCheck(v.Rules[1], R) # CallCheck(v.Rules[3], R)
    /\ ReasonsFor(ret.msgs, "surname") # << >>

\* C5: a second Run, with no Add and no change of the request since the
\* first, returns the same messages and the same error.
C5_RunIdempotent ==
    (ret.op = "Run" /\ prev.op = "Run") =>
        /\ ret.msgs = prev.msgs
        /\ ret.err = prev.err

C5_Witness ==
    /\ ret.op = "Run"
    /\ prev.op = "Run"
    /\ ret.msgs # << >>
    /\ ret.msgs = prev.msgs

\* C6: the rule list is the rules given to Make followed by those of each
\* Add, in call order, none dropped, merged or moved; and Run calls the
\* checks in the order of that list.
C6_RulesAreConcatenation ==
    /\ v.made => v.Rules = passed
    /\ ret.op = "Run" => (v.Rules # << >> => ret.calls = v.Rules)

C6_Witness ==
    /\ ret.op = "Run"
    /\ Len(v.Rules) > MaxArgs
    /\ v.Rules[1] = v.Rules[Len(v.Rules)]
    /\ v.Rules[1] # v.Rules[2]
    /\ ret.calls = v.Rules

\* C7 (does not hold of the code): once a Validator is made the request's
\* Form is there and has every parameter the request carries, so that a
\* Required rule on a parameter the request carries gives no message.
C7_MakeParsesForm ==
    /\ v.made => (~Form.nil /\ \A p \in Params : query[p].has => FormExists(R, p))
    /\ ret.op = "Run" =>
          \A i \in 1..Len(v.Rules) :
              (v.Rules[i].Check = "Required" /\ query[v.Rules[i].Param].has)
                  => \A k \in 1..Len(ret.msgs) :
                        ~(/\ ret.msgs[k].Param = v.Rules[i].Param
                          /\ ret.msgs[k].Error = <<v.Rules[i].Param, " is required">>)

\* C8: Required passes exactly when the field is among the parameters,
\* whatever its value; where the field is missing Required fails although
\* Alpha, Alphanumeric and MaxLength pass on the empty value read for it.
C8_RequiredIffPresent ==
    /\ (ret.op = "Run" /\ OnlyRule("Required")) =>
           (IsNil(ret.err) <=> FormExists(R, "forename"))
    /\ ~FormExists(R, "forename") =>
           /\ ~IsNil(Required(R, "forename", NilOptions))
           /\ IsNil(Alpha(R, "forename", NilOptions))
           /\ IsNil(Alphanumeric(R, "forename", NilOptions))
           /\ IsNil(MaxLength(R, "forename", Options("length", OInt(2))))

C8_Witness ==
    /\ ret.op = "Run"
    /\ OnlyRule("Required")
    /\ FormExists(R, "forename")
    /\ FormGet(R, "forename") = << >>
    /\ IsNil(ret.err)
    /\ ret.msgs = << >>

\* The value of a member of a JSON object.
MemberValue(obj, key) ==
    LET i == CHOOSE k \in 1..Len(obj.members) : obj.members[k].key = key
    IN  obj.members[i].value

\* C9 (does not hold of the code): the response to a list of messages has
\* status 422, Content-Type application/json, and a body whose "errors"
\* member is an object that gives, for each field that failed, the array of
\* its reasons.
C9_ErrorsIsObjectOfArrays ==
    (resp.written /\ resp.m # << >>) =>
        /\ resp.status = 422
        /\ resp.contentType = "application/json"
        /\ resp.body.t = "object"
        /\ MemberValue(resp.body, "errors").t = "object"
        /\ \A p \in Params :
              ReasonsFor(resp.m, p) # << >> =>
                  \E k \in 1..Len(MemberValue(resp.body, "errors").members) :
                      /\ MemberValue(resp.body, "errors").members[k].key = p
                      /\ MemberValue(resp.body, "errors").members[k].value.t = "array"

\* The option a check cannot do without, and whether the options hold a
\* usable one.
Usable(rule) ==
    CASE rule.Check \in {"Regex", "NotRegex"} ->
            /\ AssertString(rule.Options, "pattern").ok
            /\ ~MatchString(AssertString(rule.Options, "pattern").val, << >>).err
      [] rule.Check = "DateFormat" -> AssertString(rule.Options, "format").ok
      [] rule.Check = "Date" -> AssertStrings(rule.Options.m["formats"]).ok
      [] OTHER -> TRUE

\* C10 (does not hold of the code): a check whose required option (the
\* pattern of Regex and NotRegex, the format of DateFormat, the formats of
\* Date) is missing, of the wrong type or cannot be compiled returns a
\* failure, never a pass.
C10_UnusableOptionFails ==
    (ret.op = "Run" /\ Len(v.Rules) = 1 /\ ~Usable(v.Rules[1])) => ~IsNil(ret.err)

\* The text of an error has the string among its pieces.
Names(err, str) == \E i \in 1..Len(err) : err[i] = str

\* C11 (does not hold of the code): every reason a check of the library
\* returns names the field it was run on; a reason of MXEmail may name the
\* domain instead.
C11_ReasonNamesField ==
    (ret.op = "Run" /\ Len(v.Rules) = 1 /\ v.Rules[1].Check \in LibraryChecks) =>
        \A k \in 1..Len(ret.msgs) :
            \/ Names(ret.msgs[k].Error, v.Rules[1].Param)
            \/ /\ v.Rules[1].Check = "MXEmail"
               /\ Names(ret.msgs[k].Error, Join(getDomain(FormGet(R, v.Rules[1].Param))))

\* The seconds MXEmail waits for an answer: the timeout option when it is an
\* integer, 5 otherwise.
Patience(o) == IF o.m["timeout"].t = "int" THEN o.m["timeout"].i ELSE 5

\* C12: MXEmail passes exactly when the value passes Email and the resolver
\* answers with a record in less than the timeout (5 seconds without a usable
\* option); any other answer is a validation failure with its reason, and
\* when the value fails Email the reason is Email's and nothing is looked up.
C12_MXEmailLookup ==
    (ret.op = "Run" /\ OnlyRule("MXEmail")) =>
        /\ IsNil(ret.err) <=>
              /\ IsNil(Email(R, "forename", NilOptions))
              /\ mx.answer = "records"
              /\ mx.delay < Patience(v.Rules[1].Options)
        /\ ~IsNil(ret.err) =>
              /\ ret.err = ValidationFailed
              /\ Len(ret.msgs) = 1
              /\ ~IsNil(ret.msgs[1].Error)
              /\ ret.msgs[1].Param = "forename"
        /\ ~IsNil(Email(R, "forename", NilOptions)) =>
              /\ ret.lookups = 0
              /\ ret.msgs[1].Error = Email(R, "forename", NilOptions)
        /\ IsNil(Email(R, "forename", NilOptions)) => ret.lookups = 1

C12_Witness ==
    /\ ret.op = "Run"
    /\ OnlyRule("MXEmail")
    /\ mx = [answer |-> "records", delay |-> 7]
    /\ Patience(v.Rules[1].Options) = 10
    /\ ret.lookups = 1
    /\ IsNil(ret.err)

\* The bound of a length check: the length option when it is an integer, 0
\* otherwise.
Bound(o) == IF o.m["length"].t = "int" THEN o.m["length"].i ELSE 0

\* C13 (does not hold of the code): MaxLength passes exactly when the value
\* has at most Bound characters and MinLength exactly when it has at least
\* Bound characters, an absent field counting as the empty string.
C13_LengthInCharacters ==
    /\ (ret.op = "Run" /\ OnlyRule("MaxLength")) =>
           (IsNil(ret.err) <=> Len(FormGet(R, "forename")) <= Bound(v.Rules[1].Options))
    /\ (ret.op = "Run" /\ OnlyRule("MinLength")) =>
           (IsNil(ret.err) <=> Len(FormGet(R, "forename")) >= Bound(v.Rules[1].Options))

\* The layouts Date is to try: the built-in ones, then the caller's.
DateLayouts(o) ==
    <<ANSIC, UnixDateLayout, RubyDate, RFC822Layout, RFC822Z, RFC850, RFC1123Layout,
      RFC1123Z, RFC3339Layout, RFC3339Nano, Kitchen, Stamp, StampMilli, StampMicro,
      StampNano>>
    \o (IF o.m["formats"].t = "strings" THEN o.m["formats"].l ELSE << >>)

\* C14: with formats missing or a list of layouts, Date passes exactly when
\* the value parses against one of the built-in layouts or of the list; with
\* none given 1993-10-18T10:10:10-02:00 passes and 2016/02/29 fails; and a
\* value that passes without a list passes with one.
C14_DateAnyLayout ==
    (ret.op = "Run" /\ OnlyRule("Date") /\ v.Rules[1].Options.m["formats"].t \in {"absent", "strings"}) =>
        /\ IsNil(ret.err) <=>
              \E i \in 1..Len(DateLayouts(v.Rules[1].Options)) :
                  TimeParse(DateLayouts(v.Rules[1].Options)[i], FormGet(R, "forename"))
        /\ (/\ v.Rules[1].Options.m["formats"].t = "absent"
            /\ FormGet(R, "forename") = <<"1", "9", "9", "3", "-", "1", "0", "-", "1", "8", "T",
                                          "1", "0", ":", "1", "0", ":", "1", "0", "-", "0", "2",
                                          ":", "0", "0">>)
              => IsNil(ret.err)
        /\ (/\ v.Rules[1].Options.m["formats"].t = "absent"
            /\ FormGet(R, "forename") = <<"2", "0", "1", "6", "/", "0", "2", "/", "2", "9">>)
              => ~IsNil(ret.err)
        /\ IsNil(Date(R, "forename", NilOptions))
              => IsNil(Date(R, "forename", Options("formats", OStrings(<<LayoutDashes>>))))

C14_Witness ==
    /\ ret.op = "Run"
    /\ OnlyRule("Date")
    /\ v.Rules[1].Options.m["formats"].t = "strings"
    /\ IsNil(ret.err)
    /\ ~IsNil(Date(R, "forename", NilOptions))

\* An optional sign, then one or more digits, and nothing else.
SignAndDigits(s) ==
    LET body == IF s # << >> /\ s[1] \in {"+", "-"} THEN SubSeq(s, 2, Len(s)) ELSE s
    IN  Len(body) >= 1 /\ \A i \in 1..Len(body) : body[i] \in Digits

\* C15 (does not hold of the code): Integer passes exactly when the value is
\* an optional sign and one or more digits, and on nothing but this shape
\* does the result depend; the empty string of an absent field fails.
C15_IntegerShape ==
    (ret.op = "Run" /\ OnlyRule("Integer")) =>
        (IsNil(ret.err) <=> SignAndDigits(FormGet(R, "forename")))

\* One @, something on each side of it, and no white space anywhere.
WellFormedAddress(s) ==
    \E i \in 2..(Len(s) - 1) :
        /\ s[i] = "@"
        /\ \A j \in 1..Len(s) : (j # i => s[j] # "@") /\ s[j] \notin Spaces

\* A parsed request whose forename is the value.
WithForename(value) == [Form |-> FormSet(EmptyForm, "forename", value), net |-> mx]

\* C16: Email passes exactly when the value has one @ with at least one
\* character on each side and no white space: me@tomm.us passes;
\* me@something@tomm.us, juststring, "me space@tomm.us" and the empty string
\* fail.
C16_EmailShape ==
    /\ (ret.op = "Run" /\ OnlyRule("Email")) =>
           /\ IsNil(ret.err) <=> WellFormedAddress(FormGet(R, "forename"))
           /\ FormGet(R, "forename") = <<"m", "e", "@", "t", "o", "m", "m", ".", "u", "s">>
                  => IsNil(ret.err)
           /\ FormGet(R, "forename") \in
                  {<< >>,
                   <<"m", "e", "@", "s", "o", "m", "e", "t", "h", "i", "n", "g", "@", "t", "o",
                     "m", "m", ".", "u", "s">>}
                  => ~IsNil(ret.err)
    /\ ~IsNil(Email(WithForename(<<"j", "u", "s", "t", "s", "t", "r", "i", "n", "g">>),
                    "forename", NilOptions))
    /\ ~IsNil(Email(WithForename(<<"m", "e", " ", "s", "p", "a", "c", "e", "@", "t", "o", "m",
                                   "m", ".", "u", "s">>),
                    "forename", NilOptions))

C16_Witness ==
    /\ ret.op = "Run"
    /\ OnlyRule("Email")
    /\ FormGet(R, "forename") = <<"m", "e", "@", "t", "o", "m", "m", ".", "u", "s">>
    /\ IsNil(ret.err)
    /\ ret.msgs = << >>

\* C17: one Run over a non-empty rule list calls every rule's check once, in
\* the order of the list, with the rule's own field and options; a failure
\* neither stops the checks after it nor is tried again, so the calls are as
\* many as the rules and every failure is recorded once.
C17_EachCheckOnceInOrder ==
    (ret.op = "Run" /\ v.Rules # << >>) =>
        /\ Len(ret.calls) = Len(v.Rules)
        /\ \A i \in 1..Len(v.Rules) :
              /\ ret.calls[i].Check = v.Rules[i].Check
              /\ ret.calls[i].Param = v.Rules[i].Param
              /\ ret.calls[i].Options = v.Rules[i].Options
        /\ Len(ret.msgs) = Cardinality(Failing(ret.calls, R))

C17_Witness ==
    /\ ret.op = "Run"
    /\ Len(v.Rules) = 3
    /\ Failing(v.Rules, R) = {1, 3}
    /\ Len(ret.calls) = 3
    /\ Len(ret.msgs) = 2

\* The value has digits followed by letters somewhere: what the pattern
\* [0-9]+[a-zA-Z]+ matches.
HasDigitThenLetter(s) == \E i \in 1..(Len(s) - 1) : s[i] \in Digits /\ s[i + 1] \in Letters

\* C18: on options whose pattern is a string, one and only one of Regex and
\* NotRegex fails, Regex when the value does not match and NotRegex when it
\* does; on options without a string pattern both fail.
C18_RegexComplement ==
    (ret.op = "Run" /\ (OnlyRule("Regex") \/ OnlyRule("NotRegex"))) =>
        /\ ret.err = (IF OnlyRule("Regex")
                      THEN IF IsNil(Regex(R, "forename", v.Rules[1].Options))
                           THEN NilError ELSE ValidationFailed
                      ELSE IF IsNil(NotRegex(R, "forename", v.Rules[1].Options))
                           THEN NilError ELSE ValidationFailed)
        /\ v.Rules[1].Options.m["pattern"].t = "string" =>
              IsNil(Regex(R, "forename", v.Rules[1].Options))
                  # IsNil(NotRegex(R, "forename", v.Rules[1].Options))
        /\ v.Rules[1].Options.m["pattern"].t = "string" /\ v.Rules[1].Options.m["pattern"].s = "[0-9]+[a-zA-Z]+" =>
              /\ IsNil(Regex(R, "forename", v.Rules[1].Options))
                    <=> HasDigitThenLetter(FormGet(R, "forename"))
              /\ IsNil(NotRegex(R, "forename", v.Rules[1].Options))
                    <=> ~HasDigitThenLetter(FormGet(R, "forename"))
        /\ v.Rules[1].Options.m["pattern"].t # "string" =>
              /\ ~IsNil(Regex(R, "forename", v.Rules[1].Options))
              /\ ~IsNil(NotRegex(R, "forename", v.Rules[1].Options))

C18_Witness ==
    /\ ret.op = "Run"
    /\ OnlyRule("NotRegex")
    /\ v.Rules[1].Options.m["pattern"].s = "[0-9]+[a-zA-Z]+"
    /\ HasDigitThenLetter(FormGet(R, "forename"))
    /\ ~IsNil(ret.err)
    /\ IsNil(Regex(R, "forename", v.Rules[1].Options))

\* C19 (does not hold of the code): an Add on one Validator leaves the rule
\* list of every other Validator, and the rules the caller handed to Make,
\* as they were, also when the Validators were made from the same rules.
C19_AddLeavesOthersAlone ==
    mem.last.op = "Add" =>
        /\ CallerRules(mem) = mem.last.caller
        /\ \A j \in 1..Len(mem.vs) :
              j # mem.last.i => Elems(mem.heap, mem.vs[j]) = mem.last.before[j]

=============================================================================
